---- MODULE Spec2Model ----
(***************************************************************************)
(* Model of src-tauri/src/lib.rs: the entry point run().                   *)
(*                                                                         *)
(* run() builds a tauri::Builder, attaches plugins, installs a setup hook  *)
(* and calls the framework's blocking run.  The framework and the plugins  *)
(* are the environment: whatever they report (Ok or Err of the plugin     *)
(* registration, Ok or Err of the run call, the framework ending the      *)
(* process itself) is a nondeterministic choice.                           *)
(*                                                                         *)
(* Several executions of the same build are modelled side by side, so that *)
(* statements comparing two executions are state predicates.               *)
(***************************************************************************)
EXTENDS Integers, Sequences, FiniteSets

\* Number of executions of the program observed side by side.
NumExecs == 2
\* Number of distinct error values the framework or a plugin can report.
MaxErr == 2

Execs == 1..NumExecs
ErrCodes == 1..MaxErr

VARIABLES
    desktop,     \* the build: TRUE iff compiled with cfg(desktop)
    pc,          \* per execution: the statement of run() that is next
    builder,     \* per execution: the tauri::Builder value held by run()
    app,         \* per execution: the framework's App made from the builder
    hookPc,      \* per execution: position inside the setup closure
    updaterRes,  \* per execution: result of app.handle().plugin(updater)
    hookRes,     \* per execution: result returned by the setup closure
    runRes,      \* per execution: result returned by Builder::run
    outcome,     \* per execution: how the execution of run() ended
    steps        \* per execution: the statements of run() executed so far

vars == <<desktop, pc, builder, app, hookPc, updaterRes, hookRes, runRes,
          outcome, steps>>

\* The message literal handed to expect().
StaticMsg == "error while running tauri application"
\* The message of the framework's own panic when the setup hook fails.
FrameworkSetupMsg == "Failed to setup app"

NoErr == [kind |-> "none", code |-> 0, boxed |-> FALSE]
NoRes == [tag |-> "none", err |-> NoErr]
OkRes == [tag |-> "Ok", err |-> NoErr]
ErrRes(x) == [tag |-> "Err", err |-> x]

NoOutcome == [kind |-> "none", by |-> "none", msg |-> "", err |-> NoErr]

\* PluginStore::register as used by Builder::plugin and AppHandle::plugin:
\* a plugin of the same name is replaced, the new one is pushed at the end.
Register(store, name) ==
    SelectSeq(store, LAMBDA p : p # name) \o <<name>>

\* Variant of CfgDesktop: the attribute is missing.
CfgAlways(d) == TRUE
\* #[cfg(desktop)] on the statement of the setup closure (line 9).
CfgDesktop(d) == d

\* Variant of TryOp: the result is discarded (`let _ = ...;`).
TryDiscard(res) == OkRes
\* The `?` operator of the setup closure (line 11): Ok continues, Err returns
\* Err(From::from(e)), the error boxed as Box<dyn Error>.
TryOp(res) ==
    IF res.tag = "Err"
    THEN ErrRes([res.err EXCEPT !.boxed = TRUE])
    ELSE OkRes

\* Variant of NextLine: the opener plugin call of line 15 is missing.
NextLineSkipOpener(l) ==
    CASE l = "L6" -> "L7"
      [] l = "L7" -> "L8"
      [] l = "L8" -> "L14"
      [] l = "L14" -> "L16"
      [] l = "L15" -> "L16"
      [] OTHER -> l
\* The chain of builder calls of run(), by source line (lines 6-16).
NextLine(l) ==
    CASE l = "L6" -> "L7"
      [] l = "L7" -> "L8"
      [] l = "L8" -> "L14"
      [] l = "L14" -> "L15"
      [] l = "L15" -> "L16"
      [] OTHER -> l

\* Variant of ExpectOutcome: the error is dropped (unwrap_or_default).
ExpectUnwrapOr(res) ==
    [kind |-> "returned", by |-> "run", msg |-> "", err |-> NoErr]
\* Result::expect(msg) of line 17: Ok(()) returns to the caller, Err(e)
\* panics with msg.
ExpectOutcome(res) ==
    IF res.tag = "Ok"
    THEN [kind |-> "returned", by |-> "run", msg |-> "", err |-> NoErr]
    ELSE [kind |-> "panicked", by |-> "expect", msg |-> StaticMsg,
          err |-> res.err]

Init ==
    /\ desktop \in BOOLEAN
    /\ pc = [e \in Execs |-> "L6"]
    /\ builder = [e \in Execs |->
                    [state |-> "none", plugins |-> <<>>, setup |-> FALSE]]
    /\ app = [e \in Execs |-> [phase |-> "none", plugins |-> <<>>]]
    /\ hookPc = [e \in Execs |-> "idle"]
    /\ updaterRes = [e \in Execs |-> NoRes]
    /\ hookRes = [e \in Execs |-> NoRes]
    /\ runRes = [e \in Execs |-> NoRes]
    /\ outcome = [e \in Execs |-> NoOutcome]
    /\ steps = [e \in Execs |-> <<>>]

\* line 6: tauri::Builder::default()
BuilderDefault(e) ==
    /\ pc[e] = "L6"
    /\ builder' = [builder EXCEPT ![e] =
                     [state |-> "owned", plugins |-> <<>>, setup |-> FALSE]]
    /\ steps' = [steps EXCEPT ![e] = Append(@, "default")]
    /\ pc' = [pc EXCEPT ![e] = NextLine("L6")]
    /\ UNCHANGED <<desktop, app, hookPc, updaterRes, hookRes, runRes, outcome>>

\* line 7: .plugin(tauri_plugin_dialog::init())
PluginDialog(e) ==
    /\ pc[e] = "L7"
    /\ builder[e].state = "owned"
    /\ builder' = [builder EXCEPT ![e].plugins = Register(@, "dialog")]
    /\ steps' = [steps EXCEPT ![e] = Append(@, "dialog")]
    /\ pc' = [pc EXCEPT ![e] = NextLine("L7")]
    /\ UNCHANGED <<desktop, app, hookPc, updaterRes, hookRes, runRes, outcome>>

\* Variant of InstallSetup: the updater is attached to the builder where it
\* appears in the source.
SetupWithUpdaterPlugin(e) ==
    /\ pc[e] = "L8"
    /\ builder[e].state = "owned"
    /\ builder' = [builder EXCEPT ![e].setup = TRUE,
                                  ![e].plugins = Register(@, "updater")]
    /\ steps' = [steps EXCEPT ![e] = Append(@, "setup")]
    /\ pc' = [pc EXCEPT ![e] = NextLine("L8")]
    /\ UNCHANGED <<desktop, app, hookPc, updaterRes, hookRes, runRes, outcome>>
\* lines 8-13: .setup(|app| { ... }) stores the closure, it does not run it
InstallSetup(e) ==
    /\ pc[e] = "L8"
    /\ builder[e].state = "owned"
    /\ builder' = [builder EXCEPT ![e].setup = TRUE]
    /\ steps' = [steps EXCEPT ![e] = Append(@, "setup")]
    /\ pc' = [pc EXCEPT ![e] = NextLine("L8")]
    /\ UNCHANGED <<desktop, app, hookPc, updaterRes, hookRes, runRes, outcome>>

\* Variant of PluginProcess: the call depends on something the execution
\* reads from its environment.
PluginProcessByExecution(e) ==
    /\ pc[e] = "L14"
    /\ builder[e].state = "owned"
    /\ builder' = [builder EXCEPT ![e].plugins =
                     IF e = 1 THEN Register(@, "process") ELSE @]
    /\ steps' = [steps EXCEPT ![e] =
                     IF e = 1 THEN Append(@, "process") ELSE @]
    /\ pc' = [pc EXCEPT ![e] = NextLine("L14")]
    /\ UNCHANGED <<desktop, app, hookPc, updaterRes, hookRes, runRes, outcome>>
\* line 14: .plugin(tauri_plugin_process::init())
PluginProcess(e) ==
    /\ pc[e] = "L14"
    /\ builder[e].state = "owned"
    /\ builder' = [builder EXCEPT ![e].plugins = Register(@, "process")]
    /\ steps' = [steps EXCEPT ![e] = Append(@, "process")]
    /\ pc' = [pc EXCEPT ![e] = NextLine("L14")]
    /\ UNCHANGED <<desktop, app, hookPc, updaterRes, hookRes, runRes, outcome>>

\* line 15: .plugin(tauri_plugin_opener::init())
PluginOpener(e) ==
    /\ pc[e] = "L15"
    /\ builder[e].state = "owned"
    /\ builder' = [builder EXCEPT ![e].plugins = Register(@, "opener")]
    /\ steps' = [steps EXCEPT ![e] = Append(@, "opener")]
    /\ pc' = [pc EXCEPT ![e] = NextLine("L15")]
    /\ UNCHANGED <<desktop, app, hookPc, updaterRes, hookRes, runRes, outcome>>

\* Variant of RunCall: the application is started without blocking.
RunCallDetached(e) ==
    /\ pc[e] = "L16"
    /\ builder[e].state = "owned"
    /\ builder' = [builder EXCEPT ![e].state = "moved"]
    /\ steps' = [steps EXCEPT ![e] = Append(@, "run")]
    /\ runRes' = [runRes EXCEPT ![e] = OkRes]
    /\ pc' = [pc EXCEPT ![e] = "L17"]
    /\ UNCHANGED <<desktop, app, hookPc, updaterRes, hookRes, outcome>>
\* line 16: .run(tauri::generate_context!()) takes the builder by value and
\* blocks: control is inside the framework until it returns a Result.
RunCall(e) ==
    /\ pc[e] = "L16"
    /\ builder[e].state = "owned"
    /\ builder' = [builder EXCEPT ![e].state = "moved"]
    /\ steps' = [steps EXCEPT ![e] = Append(@, "run")]
    /\ pc' = [pc EXCEPT ![e] = "inrun"]
    /\ UNCHANGED <<desktop, app, hookPc, updaterRes, hookRes, runRes, outcome>>

\* Inside the run call: the framework builds the App from the builder and
\* initializes the builder-level plugins.  A failure is returned as Err.
FwBuildOk(e) ==
    /\ pc[e] = "inrun"
    /\ app[e].phase = "none"
    /\ app' = [app EXCEPT ![e] =
                 [phase |-> "built", plugins |-> builder[e].plugins]]
    /\ UNCHANGED <<desktop, pc, builder, hookPc, updaterRes, hookRes, runRes,
                   outcome, steps>>

FwBuildErr(e) ==
    /\ pc[e] = "inrun"
    /\ app[e].phase = "none"
    /\ \E c \in ErrCodes :
         runRes' = [runRes EXCEPT ![e] =
                      ErrRes([kind |-> "build", code |-> c, boxed |-> FALSE])]
    /\ app' = [app EXCEPT ![e].phase = "failed"]
    /\ pc' = [pc EXCEPT ![e] = "L17"]
    /\ UNCHANGED <<desktop, builder, hookPc, updaterRes, hookRes, outcome,
                   steps>>

\* The framework invokes the setup closure stored by line 8, once.
FwInvokeSetup(e) ==
    /\ pc[e] = "inrun"
    /\ app[e].phase = "built"
    /\ IF builder[e].setup
       THEN /\ app' = [app EXCEPT ![e].phase = "setup"]
            /\ hookPc' = [hookPc EXCEPT ![e] =
                            IF CfgDesktop(desktop) THEN "L10" ELSE "L12"]
       ELSE /\ app' = [app EXCEPT ![e].phase = "running"]
            /\ UNCHANGED hookPc
    /\ UNCHANGED <<desktop, pc, builder, updaterRes, hookRes, runRes, outcome,
                   steps>>

\* Variant of HookRegisterUpdater: the closure also writes the builder.
HookRegisterUpdaterOnBuilder(e) ==
    /\ hookPc[e] = "L10"
    /\ \E r \in {OkRes} \cup
                {ErrRes([kind |-> "plugin", code |-> c, boxed |-> FALSE]) :
                    c \in ErrCodes} :
         /\ updaterRes' = [updaterRes EXCEPT ![e] = r]
         /\ IF TryOp(r).tag = "Ok"
            THEN /\ builder' = [builder EXCEPT ![e].plugins =
                                  Register(@, "updater")]
                 /\ app' = [app EXCEPT ![e].plugins = Register(@, "updater")]
                 /\ hookPc' = [hookPc EXCEPT ![e] = "L12"]
                 /\ UNCHANGED hookRes
            ELSE /\ hookRes' = [hookRes EXCEPT ![e] = TryOp(r)]
                 /\ hookPc' = [hookPc EXCEPT ![e] = "ret"]
                 /\ UNCHANGED <<app, builder>>
    /\ UNCHANGED <<desktop, pc, runRes, outcome, steps>>
\* lines 9-11: #[cfg(desktop)] app.handle().plugin(updater)?;
\* the plugin reports Ok (it is registered on the App) or Err (the closure
\* returns the error through `?`).
HookRegisterUpdater(e) ==
    /\ hookPc[e] = "L10"
    /\ \E r \in {OkRes} \cup
                {ErrRes([kind |-> "plugin", code |-> c, boxed |-> FALSE]) :
                    c \in ErrCodes} :
         /\ updaterRes' = [updaterRes EXCEPT ![e] = r]
         /\ IF TryOp(r).tag = "Ok"
            THEN /\ IF r.tag = "Ok"
                    THEN app' = [app EXCEPT ![e].plugins =
                                   Register(@, "updater")]
                    ELSE UNCHANGED app
                 /\ hookPc' = [hookPc EXCEPT ![e] = "L12"]
                 /\ UNCHANGED hookRes
            ELSE /\ hookRes' = [hookRes EXCEPT ![e] = TryOp(r)]
                 /\ hookPc' = [hookPc EXCEPT ![e] = "ret"]
                 /\ UNCHANGED app
    /\ UNCHANGED <<desktop, pc, builder, runRes, outcome, steps>>

\* line 12: Ok(())
HookReturnOk(e) ==
    /\ hookPc[e] = "L12"
    /\ hookRes' = [hookRes EXCEPT ![e] = OkRes]
    /\ hookPc' = [hookPc EXCEPT ![e] = "ret"]
    /\ UNCHANGED <<desktop, pc, builder, app, updaterRes, runRes, outcome,
                   steps>>

\* The closure returned Ok: the application is running.
FwSetupOk(e) ==
    /\ pc[e] = "inrun"
    /\ app[e].phase = "setup"
    /\ hookPc[e] = "ret"
    /\ hookRes[e].tag = "Ok"
    /\ app' = [app EXCEPT ![e].phase = "running"]
    /\ UNCHANGED <<desktop, pc, builder, hookPc, updaterRes, hookRes, runRes,
                   outcome, steps>>

\* The closure returned Err and the framework panics itself (tauri 2:
\* "Failed to setup app: {e}"); the run call never returns.
FwSetupFailedPanic(e) ==
    /\ pc[e] = "inrun"
    /\ app[e].phase = "setup"
    /\ hookPc[e] = "ret"
    /\ hookRes[e].tag = "Err"
    /\ app' = [app EXCEPT ![e].phase = "failed"]
    /\ outcome' = [outcome EXCEPT ![e] =
                     [kind |-> "panicked", by |-> "framework",
                      msg |-> FrameworkSetupMsg, err |-> hookRes[e].err]]
    /\ pc' = [pc EXCEPT ![e] = "dead"]
    /\ UNCHANGED <<desktop, builder, hookPc, updaterRes, hookRes, runRes,
                   steps>>

\* The closure returned Err and the framework returns it from the run call
\* (tauri 1: Error::Setup).
FwSetupFailedErr(e) ==
    /\ pc[e] = "inrun"
    /\ app[e].phase = "setup"
    /\ hookPc[e] = "ret"
    /\ hookRes[e].tag = "Err"
    /\ app' = [app EXCEPT ![e].phase = "failed"]
    /\ runRes' = [runRes EXCEPT ![e] =
                    ErrRes([hookRes[e].err EXCEPT !.kind = "setup"])]
    /\ pc' = [pc EXCEPT ![e] = "L17"]
    /\ UNCHANGED <<desktop, builder, hookPc, updaterRes, hookRes, outcome,
                   steps>>

\* The application exits and the run call returns Ok(()).
FwLoopReturn(e) ==
    /\ pc[e] = "inrun"
    /\ app[e].phase = "running"
    /\ app' = [app EXCEPT ![e].phase = "closed"]
    /\ runRes' = [runRes EXCEPT ![e] = OkRes]
    /\ pc' = [pc EXCEPT ![e] = "L17"]
    /\ UNCHANGED <<desktop, builder, hookPc, updaterRes, hookRes, outcome,
                   steps>>

\* The application exits and the framework's event loop ends the process
\* itself (std::process::exit); the run call never returns.
FwLoopExit(e) ==
    /\ pc[e] = "inrun"
    /\ app[e].phase = "running"
    /\ app' = [app EXCEPT ![e].phase = "closed"]
    /\ outcome' = [outcome EXCEPT ![e] =
                     [kind |-> "exited", by |-> "framework", msg |-> "",
                      err |-> NoErr]]
    /\ pc' = [pc EXCEPT ![e] = "dead"]
    /\ UNCHANGED <<desktop, builder, hookPc, updaterRes, hookRes, runRes,
                   steps>>

\* The run loop reports an error: the run call returns Err.
FwLoopErr(e) ==
    /\ pc[e] = "inrun"
    /\ app[e].phase = "running"
    /\ app' = [app EXCEPT ![e].phase = "closed"]
    /\ \E c \in ErrCodes :
         runRes' = [runRes EXCEPT ![e] =
                      ErrRes([kind |-> "loop", code |-> c, boxed |-> FALSE])]
    /\ pc' = [pc EXCEPT ![e] = "L17"]
    /\ UNCHANGED <<desktop, builder, hookPc, updaterRes, hookRes, outcome,
                   steps>>

\* line 17: .expect("error while running tauri application"), then line 18
Expect(e) ==
    /\ pc[e] = "L17"
    /\ outcome' = [outcome EXCEPT ![e] = ExpectOutcome(runRes[e])]
    /\ steps' = [steps EXCEPT ![e] = Append(@, "expect")]
    /\ pc' = [pc EXCEPT ![e] =
                IF ExpectOutcome(runRes[e]).kind = "returned"
                THEN "done" ELSE "dead"]
    /\ UNCHANGED <<desktop, builder, app, hookPc, updaterRes, hookRes, runRes>>

Next ==
    \E e \in Execs :
        \/ BuilderDefault(e)
        \/ PluginDialog(e)
        \/ InstallSetup(e)
        \/ PluginProcess(e)
        \/ PluginOpener(e)
        \/ RunCall(e)
        \/ FwBuildOk(e)
        \/ FwBuildErr(e)
        \/ FwInvokeSetup(e)
        \/ HookRegisterUpdater(e)
        \/ HookReturnOk(e)
        \/ FwSetupOk(e)
        \/ FwSetupFailedPanic(e)
        \/ FwSetupFailedErr(e)
        \/ FwLoopReturn(e)
        \/ FwLoopExit(e)
        \/ FwLoopErr(e)
        \/ Expect(e)

Spec == Init /\ [][Next]_vars

TypeOK ==
    /\ desktop \in BOOLEAN
    /\ \A e \in Execs :
         /\ pc[e] \in {"L6", "L7", "L8", "L14", "L15", "L16", "inrun", "L17",
                       "done", "dead"}
         /\ builder[e].state \in {"none", "owned", "moved"}
         /\ app[e].phase \in {"none", "built", "setup", "running", "closed",
                              "failed"}
         /\ hookPc[e] \in {"idle", "L10", "L12", "ret"}
         /\ outcome[e].kind \in {"none", "returned", "panicked", "exited"}

-----------------------------------------------------------------------------
(* Properties *)

Count(seq, x) == Cardinality({i \in DOMAIN seq : seq[i] = x})
IsPrefix(s, t) == Len(s) <= Len(t) /\ SubSeq(t, 1, Len(s)) = s
Finished(e) == pc[e] \in {"done", "dead"}
Names(seq) == {seq[i] : i \in DOMAIN seq}

FourPlugins == {"dialog", "updater", "process", "opener"}
ThreePlugins == {"dialog", "process", "opener"}
ConfigSteps == <<"default", "dialog", "setup", "process", "opener", "run">>

\* C1 as stated: every execution whose application is running has exactly
\* the four plugins dialog, updater, process, opener, each once, whatever
\* the build.
C1_FourPluginsEveryPlatform ==
    \A e \in Execs :
        app[e].phase = "running" =>
            /\ Names(app[e].plugins) = FourPlugins
            /\ \A n \in FourPlugins : Count(app[e].plugins, n) = 1

\* C1 amended: a running application has exactly the four plugins, each
\* once, on a desktop build, and exactly dialog, process and opener, each
\* once, on a non-desktop build.
C1_PluginsByBuild ==
    \A e \in Execs :
        app[e].phase = "running" =>
            LET expected == IF desktop THEN FourPlugins ELSE ThreePlugins
            IN  /\ Names(app[e].plugins) = expected
                /\ \A n \in expected : Count(app[e].plugins, n) = 1

C1_Witness ==
    \E e \in Execs :
        /\ desktop
        /\ app[e].phase = "running"
        /\ Len(app[e].plugins) = 4

\* C2 as stated: once the updater registration or the run call has reported
\* an error, the execution ends in the panic of expect with the static
\* message.
C2_EveryErrorStaticMessage ==
    \A e \in Execs :
        (Finished(e) /\ (updaterRes[e].tag = "Err" \/ runRes[e].tag = "Err"))
            => /\ outcome[e].kind = "panicked"
               /\ outcome[e].by = "expect"
               /\ outcome[e].msg = StaticMsg

\* C2 amended: an error returned by the run call is followed at once by the
\* panic of expect with the static message; an error of the updater
\* registration is fatal too, by that panic or by the framework's own panic;
\* after any error run() never returns normally, and it executes no
\* statement twice.
C2_ErrorsAreFatal ==
    \A e \in Execs :
        /\ runRes[e].tag = "Err" => pc[e] \in {"L17", "dead"}
        /\ (Finished(e) /\ runRes[e].tag = "Err")
              => /\ outcome[e].kind = "panicked"
                 /\ outcome[e].by = "expect"
                 /\ outcome[e].msg = StaticMsg
                 /\ outcome[e].err = runRes[e].err
        /\ (updaterRes[e].tag = "Err" \/ runRes[e].tag = "Err")
              => /\ outcome[e].kind \in {"none", "panicked"}
                 /\ pc[e] # "done"
                 /\ app[e].phase # "running"
        /\ (Finished(e) /\ updaterRes[e].tag = "Err")
              => /\ outcome[e].kind = "panicked"
                 /\ outcome[e].msg \in {StaticMsg, FrameworkSetupMsg}
        /\ \A n \in Names(steps[e]) : Count(steps[e], n) = 1

C2_Witness ==
    \E e \in Execs :
        /\ runRes[e].tag = "Err"
        /\ outcome[e].kind = "panicked"
        /\ outcome[e].by = "expect"

\* C3 as stated: run() returns only after the application has exited and
\* only when the run call returned Ok; every other way an execution ends is
\* a panic.
C3_ReturnOrPanic ==
    \A e \in Execs :
        /\ outcome[e].kind = "returned"
              => app[e].phase = "closed" /\ runRes[e] = OkRes
        /\ (Finished(e) /\ outcome[e].kind # "returned")
              => outcome[e].kind = "panicked"

\* C3 amended: run() is past the run call only after the application has
\* exited or failed to start; it returns normally only when the run call
\* returned Ok after the application exited; every other way an execution
\* ends is a panic or the framework ending the process itself when the
\* application exits.
C3_BlocksUntilExit ==
    \A e \in Execs :
        /\ pc[e] \in {"L17", "done"} => app[e].phase \in {"closed", "failed"}
        /\ outcome[e].kind = "returned" <=> pc[e] = "done"
        /\ outcome[e].kind = "returned"
              => app[e].phase = "closed" /\ runRes[e] = OkRes
        /\ (Finished(e) /\ outcome[e].kind # "returned")
              => \/ outcome[e].kind = "panicked"
                 \/ /\ outcome[e].kind = "exited"
                    /\ outcome[e].by = "framework"
                    /\ app[e].phase = "closed"

C3_Witness ==
    \E e \in Execs :
        /\ outcome[e].kind = "returned"
        /\ app[e].phase = "closed"

\* C4: the statements of run() are executed one after the other in source
\* order; when the builder has been handed to the framework, the dialog
\* plugin, the setup hook, the process plugin and the opener plugin have all
\* been configured; the framework and the body of the setup hook act only
\* after the hand-over, and after it run() executes nothing but expect.
C4_ConfigBeforeHandOver ==
    \A e \in Execs :
        /\ IsPrefix(steps[e], ConfigSteps \o <<"expect">>)
        /\ builder[e].state = "moved"
              => /\ IsPrefix(ConfigSteps, steps[e])
                 /\ builder[e].plugins = <<"dialog", "process", "opener">>
                 /\ builder[e].setup
        /\ (app[e].phase # "none" \/ hookPc[e] # "idle"
               \/ updaterRes[e] # NoRes \/ runRes[e] # NoRes)
              => builder[e].state = "moved"

C4_Witness ==
    \E e \in Execs :
        /\ builder[e].state = "moved"
        /\ hookPc[e] = "ret"
        /\ steps[e] = ConfigSteps

\* C5: the setup hook is installed on every build; on a non-desktop build
\* the hook attempts no registration, returns Ok, and the running
\* application has only dialog, process and opener; on a desktop build the
\* hook does not get past its first statement without attempting the
\* updater registration.
C5_UpdaterOnlyOnDesktop ==
    \A e \in Execs :
        /\ Count(steps[e], "setup") = 1 => builder[e].setup
        /\ ~desktop
              => /\ updaterRes[e] = NoRes
                 /\ Count(app[e].plugins, "updater") = 0
                 /\ hookRes[e].tag # "Err"
                 /\ hookPc[e] = "ret" => hookRes[e] = OkRes
                 /\ app[e].phase = "running"
                       => app[e].plugins = <<"dialog", "process", "opener">>
        /\ (desktop /\ hookPc[e] \in {"L12", "ret"})
              => updaterRes[e] # NoRes
        /\ (desktop /\ app[e].phase = "running")
              => Count(app[e].plugins, "updater") = 1

C5_Witness ==
    \E e \in Execs :
        /\ ~desktop
        /\ builder[e].setup
        /\ hookRes[e] = OkRes
        /\ app[e].phase = "running"

\* C6: the builder never holds the updater plugin; when the updater is
\* registered, the builder has been handed over and dialog, process and
\* opener are already registered, in that order, before it.
C6_UpdaterRegisteredLast ==
    \A e \in Execs :
        /\ Count(builder[e].plugins, "updater") = 0
        /\ Count(app[e].plugins, "updater") > 0
              => /\ builder[e].state = "moved"
                 /\ app[e].plugins =
                        <<"dialog", "process", "opener", "updater">>

C6_Witness ==
    \E e \in Execs :
        /\ Count(app[e].plugins, "updater") = 1
        /\ app[e].plugins[4] = "updater"

\* C7: the setup hook returns Err exactly when the updater registration
\* failed, and then with the error of the registration (boxed, same kind
\* and code); otherwise it returns Ok; after a failed hook the application
\* is never running.
C7_HookErrIffUpdaterErr ==
    \A e \in Execs :
        /\ hookRes[e].tag = "Err" <=> updaterRes[e].tag = "Err"
        /\ hookRes[e].tag = "Err"
              => /\ hookRes[e].err.kind = updaterRes[e].err.kind
                 /\ hookRes[e].err.code = updaterRes[e].err.code
        /\ (hookPc[e] = "ret" /\ updaterRes[e].tag # "Err")
              => hookRes[e] = OkRes
        /\ hookRes[e].tag = "Err"
              => app[e].phase \in {"setup", "failed"}

C7_Witness ==
    \E e \in Execs :
        /\ updaterRes[e].tag = "Err"
        /\ hookRes[e].tag = "Err"
        /\ app[e].phase = "failed"

====
